---- MODULE Spec2Model ----
(***************************************************************************)
(* Model of src/app.py: the income-capitalization endpoint                 *)
(* calcular_capitalizacion and its RentInput / RentOutput schemas.         *)
(*                                                                         *)
(* Numbers.  Every Python float is a fixed-point integer counting          *)
(* 1/Scale units (Scale = 10^4, so 1.0 is 10000 and one cent is 100).      *)
(* Products, quotients, square roots and powers are rounded to the nearest *)
(* unit, the way the float operations round to the nearest double.         *)
(* Times (n_periodos, tiempo) count 1/Year of a year, Year = 2 * 365, so   *)
(* that dias / 365.0, t - 0.5 and años_enteros + fraccion / 2 are exact.   *)
(* Strings are sequences of one-character strings.  Optional[...] fields   *)
(* are sequences of length at most one: None is << >>.                     *)
(***************************************************************************)
EXTENDS Integers, Sequences, FiniteSets, TLC

VARIABLES pc, req, out, frame

vars == <<pc, req, out, frame>>

----------------------------------------------------------------------------
(* Optional values *)

None == << >>

Some(v) == <<v>>

IsNone(o) == o = << >>

Val(o) == o[1]

----------------------------------------------------------------------------
(* Fixed-point arithmetic standing for Python's float arithmetic *)

Scale == 100 * 100

Cent == Scale \div 100

Abs(x) == IF x < 0 THEN -x ELSE x

Sgn(x) == IF x < 0 THEN -1 ELSE 1

\* n / d rounded to the nearest integer, ties to even; n >= 0, d > 0
RoundHalfEven(n, d) ==
    LET q == n \div d
        r == n % d
    IN  IF 2 * r < d THEN q
        ELSE IF 2 * r > d THEN q + 1
        ELSE IF q % 2 = 0 THEN q ELSE q + 1

\* a * b
MulFix(a, b) ==
    LET x  == Abs(a)
        y  == Abs(b)
        qa == x \div Scale
        ra == x % Scale
        qb == y \div Scale
        rb == y % Scale
    IN  Sgn(a) * Sgn(b) *
        (qa * qb * Scale + qa * rb + ra * qb + RoundHalfEven(ra * rb, Scale))

RECURSIVE DivDigits(_, _, _, _)
\* long division: k more decimal digits of r / b appended to acc, then rounded
DivDigits(r, b, k, acc) ==
    IF k = 0
    THEN IF 2 * r >= b THEN acc + 1 ELSE acc
    ELSE DivDigits((r * 10) % b, b, k - 1, acc * 10 + (r * 10) \div b)

\* a / b, b # 0
DivFix(a, b) ==
    LET x == Abs(a)
        y == Abs(b)
    IN  Sgn(a) * Sgn(b) * DivDigits(x % y, y, 4, x \div y)

RECURSIVE ISqrt(_, _, _)
\* the largest c in lo..hi with c * c <= n
ISqrt(n, lo, hi) ==
    IF lo >= hi THEN lo
    ELSE LET mid == (lo + hi + 1) \div 2
         IN  IF mid * mid <= n THEN ISqrt(n, mid, hi) ELSE ISqrt(n, lo, mid - 1)

\* x ** 0.5, x >= 0
SqrtFix(x) ==
    LET n == x * Scale
        c == ISqrt(n, 0, 46340)
    IN  IF n - c * c > c THEN c + 1 ELSE c

RECURSIVE PowInt(_, _)
\* base ** k for an integer k >= 0
PowInt(base, k) == IF k = 0 THEN Scale ELSE MulFix(base, PowInt(base, k - 1))

FracBits == 10

RECURSIVE PowFrac(_, _, _, _)
\* base ** (num / den) for 0 <= num < den, by the binary expansion of num / den
PowFrac(base, num, den, bits) ==
    IF num = 0 \/ bits = 0 THEN Scale
    ELSE LET s == SqrtFix(base)
         IN  IF 2 * num >= den
             THEN MulFix(s, PowFrac(s, 2 * num - den, den, bits - 1))
             ELSE PowFrac(s, 2 * num, den, bits - 1)

\* Python round(x, 2)
Round2(x) == Sgn(x) * RoundHalfEven(Abs(x), Cent) * Cent

----------------------------------------------------------------------------
(* Times: one year is Year units *)

Year == 2 * 365

\* base ** (time / Year), base >= 0, time >= 0
Pow(base, time) ==
    MulFix(PowInt(base, time \div Year), PowFrac(base, time % Year, Year, FracBits))

\* a * x for the float x = time / Year
MulTime(a, time) ==
    LET x == Abs(a)
    IN  Sgn(a) * ((x \div Year) * time + RoundHalfEven((x % Year) * time, Year))

\* a time in hundredths of a year, rounded as round(n, 2) and "{:.2f}" round
Hundredths(time) == RoundHalfEven(time * 100, Year)

----------------------------------------------------------------------------
(* datetime.date *)

IsLeap(y) == (y % 4 = 0 /\ y % 100 # 0) \/ y % 400 = 0

DaysInMonth(y, m) ==
    IF m = 2 THEN (IF IsLeap(y) THEN 29 ELSE 28)
    ELSE IF m \in {4, 6, 9, 11} THEN 30 ELSE 31

\* date(y, m, d) raises ValueError unless this holds
ValidDate(y, m, d) ==
    /\ y \in 1..9999
    /\ m \in 1..12
    /\ d \in 1..DaysInMonth(y, m)

MkDate(y, m, d) == [year |-> y, month |-> m, day |-> d]

RECURSIVE DaysBeforeMonth(_, _)
DaysBeforeMonth(y, m) ==
    IF m = 1 THEN 0 ELSE DaysBeforeMonth(y, m - 1) + DaysInMonth(y, m - 1)

\* date.toordinal()
ToOrdinal(dt) ==
    LET y == dt.year - 1
    IN  y * 365 + y \div 4 - y \div 100 + y \div 400
        + DaysBeforeMonth(dt.year, dt.month) + dt.day

\* (a - b).days
DaysBetween(a, b) == ToOrdinal(a) - ToOrdinal(b)

\* (m1, d1) < (m2, d2), Python's tuple comparison
TupleLess(m1, d1, m2, d2) == m1 < m2 \/ (m1 = m2 /\ d1 < d2)

----------------------------------------------------------------------------
(* str *)

UpperChars == <<"A", "C", "D", "E", "F", "I", "L", "M", "N", "O", "R", "S", "T", "U", "V", "W", "H">>

LowerChars == <<"a", "c", "d", "e", "f", "i", "l", "m", "n", "o", "r", "s", "t", "u", "v", "w", "h">>

LowerChar(c) ==
    IF \E i \in 1..Len(UpperChars) : UpperChars[i] = c
    THEN LowerChars[CHOOSE i \in 1..Len(UpperChars) : UpperChars[i] = c]
    ELSE c

\* the string as it is, its case kept
LowerKeepsCase(s) == s

\* s.lower()
Lower(s) == [i \in 1..Len(s) |-> LowerChar(s[i])]

Digits == <<"0", "1", "2", "3", "4", "5", "6", "7", "8", "9">>

RECURSIVE Str(_)
\* str(n) for an integer n >= 0
Str(n) == IF n < 10 THEN <<Digits[n + 1]>> ELSE Str(n \div 10) \o <<Digits[(n % 10) + 1]>>

\* f"{x:.0f}": the key without its decimals
Format0f(time) == Str(RoundHalfEven(time, Year))

\* f"{x:.2f}" of a time x >= 0
Format2f(time) ==
    LET h == Hundredths(time)
    IN  Str(h \div 100) \o <<".", Digits[((h % 100) \div 10) + 1], Digits[(h % 10) + 1]>>

----------------------------------------------------------------------------
(* dict: insertion-ordered, a sequence of <<key, value>> pairs *)

DictKeys(d) == {d[i][1] : i \in 1..Len(d)}

\* d[k] = v
DictSet(d, k, v) ==
    IF k \in DictKeys(d)
    THEN [i \in 1..Len(d) |-> IF d[i][1] = k THEN <<k, v>> ELSE d[i]]
    ELSE Append(d, <<k, v>>)

----------------------------------------------------------------------------
(* The program *)

vivienda == <<"v", "i", "v", "i", "e", "n", "d", "a">>

oficina == <<"o", "f", "i", "c", "i", "n", "a">>

local_comercial == <<"l", "o", "c", "a", "l", "_", "c", "o", "m", "e", "r", "c", "i", "a", "l">>

industrial == <<"i", "n", "d", "u", "s", "t", "r", "i", "a", "l">>

VIDA_ECONOMICA ==
    [k \in {vivienda, oficina, local_comercial, industrial} |->
        IF k = vivienda THEN 100
        ELSE IF k = oficina THEN 75
        ELSE IF k = local_comercial THEN 50
        ELSE 35]

\* VIDA_ECONOMICA.get(k)
VidaEconomicaGet(k) == IF k \in DOMAIN VIDA_ECONOMICA THEN Some(VIDA_ECONOMICA[k]) ELSE None

RequiredFields ==
    {"fecha_valoracion", "superficie_m2", "porcentaje_gastos", "valor_mercado_m2",
     "coste_construccion_m2", "otros_gastos_m2", "coef_b", "plusvalia_anual",
     "tasa_actualizacion"}

OptionalFields ==
    {"ipc_anual", "fecha_inicio_contrato", "vigencia_anios", "renta_mensual",
     "fecha_construccion", "tipologia", "renta_m2_mes"}

\* the request body binds to RentInput: every field without a default is there
Accepted(body) == \A f \in RequiredFields : ~IsNone(body[f])

\* RentInput(**body): required fields as values, Optional fields as given,
\* fields the schema does not declare dropped
RentInput(body) ==
    [f \in RequiredFields \cup OptionalFields |->
        IF f \in RequiredFields THEN Val(body[f]) ELSE body[f]]

\* bool(x) of an Optional[float]
Truthy(o) == ~IsNone(o) /\ Val(o) # 0

NoFrame ==
    [modo |-> None, n_periodos |-> None, renta_bruta_anual |-> None,
     flujo_neto_base |-> None, valor_suelo |-> None, valor_reversion |-> None,
     valor_actualizado |-> None]

Raise(type, fr) == [ret |-> [kind |-> "exception", type |-> type], frame |-> fr]

\* RentOutput(valor_actual=0, valor_reversion=0, flujos_actualizados={},
\*            parametros={"error": msg}, n_periodos=0, modo=modo)
ErrorOutput(msg, modo) ==
    [kind |-> "RentOutput", valor_actual |-> 0, valor_reversion |-> 0,
     flujos_actualizados |-> << >>, parametros |-> [error |-> msg],
     n_periodos |-> 0, modo |-> modo]

MsgTipologia(tipologia) == <<"Tipología no reconocida: ">> \o tipologia

MsgRenta == <<"Debes pasar renta_mensual (contrato) o renta_m2_mes (mercado)">>

MsgHorizonte == <<"El horizonte de explotación es 0 o negativo">>

RECURSIVE FlujosCompuestos(_, _, _, _, _)
\* the whole-year loop compounding each flow at the rate instead of discounting it
FlujosCompuestos(data, flujo_neto_base, t, anios_enteros, acc) ==
    IF t > anios_enteros THEN acc
    ELSE LET flujo_neto  == MulFix(flujo_neto_base, PowInt(Scale + Val(data.ipc_anual), t - 1))
             tiempo      == t * Year - Year \div 2
             valor_flujo == MulFix(flujo_neto, Pow(Scale + data.tasa_actualizacion, tiempo))
         IN  FlujosCompuestos(data, flujo_neto_base, t + 1, anios_enteros,
                 [flujos |-> DictSet(acc.flujos, Str(t), Round2(valor_flujo)),
                  valor  |-> acc.valor + valor_flujo])

RECURSIVE FlujosEnteros(_, _, _, _, _)
\* for t in range(t, años_enteros + 1): ...   acc = [flujos, valor]
FlujosEnteros(data, flujo_neto_base, t, anios_enteros, acc) ==
    IF t > anios_enteros THEN acc
    ELSE LET flujo_neto  == MulFix(flujo_neto_base, PowInt(Scale + Val(data.ipc_anual), t - 1))
             tiempo      == t * Year - Year \div 2
             valor_flujo == DivFix(flujo_neto, Pow(Scale + data.tasa_actualizacion, tiempo))
         IN  FlujosEnteros(data, flujo_neto_base, t + 1, anios_enteros,
                 [flujos |-> DictSet(acc.flujos, Str(t), Round2(valor_flujo)),
                  valor  |-> acc.valor + valor_flujo])

\* the partial period recorded but left out of the total
FlujoParcialSinSumar(data, flujo_neto_base, anios_enteros, fraccion, acc) ==
    IF fraccion > 0
    THEN LET flujo_neto_parcial ==
                 MulTime(MulFix(flujo_neto_base, PowInt(Scale + Val(data.ipc_anual), anios_enteros)),
                         fraccion)
             tiempo      == anios_enteros * Year + fraccion \div 2
             valor_flujo == DivFix(flujo_neto_parcial, Pow(Scale + data.tasa_actualizacion, tiempo))
         IN  [flujos |-> DictSet(acc.flujos, Format2f(anios_enteros * Year + fraccion),
                                 Round2(valor_flujo)),
              valor  |-> acc.valor]
    ELSE acc

\* if fraccion > 0: ...
FlujoParcial(data, flujo_neto_base, anios_enteros, fraccion, acc) ==
    IF fraccion > 0
    THEN LET flujo_neto_parcial ==
                 MulTime(MulFix(flujo_neto_base, PowInt(Scale + Val(data.ipc_anual), anios_enteros)),
                         fraccion)
             tiempo      == anios_enteros * Year + fraccion \div 2
             valor_flujo == DivFix(flujo_neto_parcial, Pow(Scale + data.tasa_actualizacion, tiempo))
         IN  [flujos |-> DictSet(acc.flujos, Format2f(anios_enteros * Year + fraccion),
                                 Round2(valor_flujo)),
              valor  |-> acc.valor + valor_flujo]
    ELSE acc

\* lines 104-152: the valuation once modo, n_periodos and renta_bruta_anual are set
Valorar(data, modo, n_periodos, renta_bruta_anual) ==
    LET gastos_anuales  == MulFix(renta_bruta_anual, data.porcentaje_gastos)
        flujo_neto_base == renta_bruta_anual - gastos_anuales
        vm_total        == MulFix(data.valor_mercado_m2, data.superficie_m2)
        coste_construccion_total == MulFix(data.coste_construccion_m2, data.superficie_m2)
        otros_gastos_total       == MulFix(data.otros_gastos_m2, data.superficie_m2)
        valor_suelo     == MulFix(vm_total, Scale - data.coef_b)
                             - (coste_construccion_total + otros_gastos_total)
        valor_reversion == MulFix(valor_suelo, Pow(Scale + data.plusvalia_anual, n_periodos))
        anios_enteros   == n_periodos \div Year
        fraccion        == n_periodos - anios_enteros * Year
        fr0 == [modo |-> Some(modo), n_periodos |-> Some(n_periodos),
                renta_bruta_anual |-> Some(renta_bruta_anual),
                flujo_neto_base |-> Some(flujo_neto_base),
                valor_suelo |-> Some(valor_suelo),
                valor_reversion |-> Some(valor_reversion),
                valor_actualizado |-> Some(0)]
    IN  IF IsNone(data.ipc_anual) THEN Raise("TypeError", fr0)
        ELSE IF Scale + data.tasa_actualizacion = 0 THEN Raise("ZeroDivisionError", fr0)
        ELSE
        LET enteros == FlujosEnteros(data, flujo_neto_base, 1, anios_enteros,
                                     [flujos |-> << >>, valor |-> 0])
            todos   == FlujoParcial(data, flujo_neto_base, anios_enteros, fraccion, enteros)
            valor_reversion_actualizado ==
                DivFix(valor_reversion, Pow(Scale + data.tasa_actualizacion, n_periodos))
            valor_actualizado == todos.valor + valor_reversion_actualizado
        IN  [ret |-> [kind |-> "RentOutput",
                      valor_actual |-> Round2(valor_actualizado),
                      valor_reversion |-> Round2(valor_reversion_actualizado),
                      flujos_actualizados |-> todos.flujos,
                      parametros |-> [renta_bruta_anual |-> renta_bruta_anual,
                                      gastos_anuales |-> gastos_anuales,
                                      flujo_neto_base |-> flujo_neto_base,
                                      valor_suelo |-> valor_suelo],
                      n_periodos |-> Hundredths(n_periodos) * Cent,
                      modo |-> modo],
             frame |-> [fr0 EXCEPT !.valor_actualizado = Some(valor_actualizado)]]

\* lines 94-102, then the valuation
ConHorizonte(data, modo, n_periodos, renta_bruta_anual) ==
    IF n_periodos <= 0
    THEN [ret |-> ErrorOutput(MsgHorizonte, modo),
          frame |-> [NoFrame EXCEPT !.modo = Some(modo), !.n_periodos = Some(n_periodos),
                                    !.renta_bruta_anual = Some(renta_bruta_anual)]]
    ELSE Valorar(data, modo, n_periodos, renta_bruta_anual)

\* lines 52-62
ModoContrato(data) ==
    LET fr == [NoFrame EXCEPT !.modo = Some("contrato")]
    IN  IF IsNone(data.fecha_inicio_contrato) THEN Raise("AttributeError", fr)
        ELSE IF IsNone(data.vigencia_anios) THEN Raise("TypeError", fr)
        ELSE LET ini == Val(data.fecha_inicio_contrato)
                 y   == ini.year + Val(data.vigencia_anios)
             IN  IF ~ValidDate(y, ini.month, ini.day) THEN Raise("ValueError", fr)
                 ELSE LET fecha_fin_contrato == MkDate(y, ini.month, ini.day)
                          dias_restantes == DaysBetween(fecha_fin_contrato, data.fecha_valoracion)
                          n_periodos == (dias_restantes * Year) \div 365
                          renta_bruta_anual == Val(data.renta_mensual) * 12
                      IN  ConHorizonte(data, "contrato", n_periodos, renta_bruta_anual)

\* lines 64-82
ModoMercado(data) ==
    LET fr == [NoFrame EXCEPT !.modo = Some("mercado")]
    IN  IF IsNone(data.fecha_construccion) THEN Raise("AttributeError", fr)
        ELSE IF IsNone(data.tipologia) THEN Raise("AttributeError", fr)
        ELSE LET val == data.fecha_valoracion
                 con == Val(data.fecha_construccion)
                 antiguedad == (val.year - con.year)
                     - (IF TupleLess(val.month, val.day, con.month, con.day) THEN 1 ELSE 0)
                 vida_economica == VidaEconomicaGet(Lower(Val(data.tipologia)))
             IN  IF ~Truthy(vida_economica)
                 THEN [ret |-> ErrorOutput(MsgTipologia(Val(data.tipologia)), "mercado"),
                       frame |-> fr]
                 ELSE LET n_periodos == (Val(vida_economica) - antiguedad) * Year
                          renta_bruta_anual ==
                              MulFix(Val(data.renta_m2_mes), data.superficie_m2) * 12
                      IN  ConHorizonte(data, "mercado", n_periodos, renta_bruta_anual)

calcular_capitalizacion(data) ==
    IF Truthy(data.renta_mensual) THEN ModoContrato(data)
    ELSE IF Truthy(data.renta_m2_mes) THEN ModoMercado(data)
    ELSE [ret |-> ErrorOutput(MsgRenta, "error"), frame |-> NoFrame]

\* POST /capitalizacion_rentas: the body is bound to RentInput, then handled
Endpoint(body) ==
    IF Accepted(body) THEN calcular_capitalizacion(RentInput(body))
    ELSE [ret |-> [kind |-> "rejected", status |-> 422], frame |-> NoFrame]

----------------------------------------------------------------------------
(* Request bodies the model posts *)

MaxVigencia == 3

MaxHorizonte == 3

BodyFields == RequiredFields \cup OptionalFields \cup {"land_value"}

ValDate1 == MkDate(2024, 6, 15)

ValDate2 == MkDate(2024, 1, 1)

\* a complete derived-land body with no rent at all
BaseBody ==
    [fecha_valoracion |-> Some(ValDate1), superficie_m2 |-> Some(10000),
     porcentaje_gastos |-> Some(500), valor_mercado_m2 |-> Some(1000000),
     coste_construccion_m2 |-> Some(200000), otros_gastos_m2 |-> Some(50000),
     coef_b |-> Some(3000), plusvalia_anual |-> Some(200),
     tasa_actualizacion |-> Some(500), ipc_anual |-> Some(0),
     fecha_inicio_contrato |-> None, vigencia_anios |-> None, renta_mensual |-> None,
     fecha_construccion |-> None, tipologia |-> None, renta_m2_mes |-> None,
     land_value |-> None]

Tasas == {0, 200, 500}

\* <<valor_mercado_m2, coste_construccion_m2, otros_gastos_m2, coef_b>>:
\* land value 0, positive and negative
Suelos == {<<1000000, 0, 0, 10000>>, <<1000000, 200000, 50000, 3000>>,
           <<1000000, 800000, 0, 5000>>}

WithSuelo(b, s) ==
    [b EXCEPT !.valor_mercado_m2 = Some(s[1]), !.coste_construccion_m2 = Some(s[2]),
              !.otros_gastos_m2 = Some(s[3]), !.coef_b = Some(s[4])]

StartDates == {None, Some(MkDate(2024, 1, 1)), Some(MkDate(2024, 2, 29)),
               Some(MkDate(2023, 6, 16))}

Vigencias == {None} \cup {Some(v) : v \in 0..MaxVigencia}

RentasMensuales == {83370, 1000000, -10000}

ContractBodies ==
    {WithSuelo([BaseBody EXCEPT !.fecha_valoracion = Some(vd), !.fecha_inicio_contrato = sd,
                                !.vigencia_anios = vg, !.renta_mensual = Some(rm),
                                !.tasa_actualizacion = Some(ta)], su) :
        vd \in {ValDate1, ValDate2}, sd \in StartDates, vg \in Vigencias,
        rm \in RentasMensuales, ta \in Tasas, su \in Suelos}

Warehouse == <<"w", "a", "r", "e", "h", "o", "u", "s", "e">>

Tipologias ==
    {vivienda, oficina, local_comercial, industrial,
     <<"V", "i", "v", "i", "e", "n", "d", "a">>,
     <<"O", "F", "I", "C", "I", "N", "A">>,
     <<"L", "o", "c", "a", "l", "_", "C", "o", "m", "e", "r", "c", "i", "a", "l">>,
     <<"I", "N", "D", "U", "S", "T", "R", "I", "A", "L">>,
     Warehouse, << >>}

\* construction dates leaving -1 .. MaxHorizonte + 1 years of a life of `vida`,
\* with the anniversary before, on and after the valuation date
ConstructionDates(vd, vida) ==
    {MkDate(vd.year - vida + h, md[1], md[2]) :
        h \in (-1)..MaxHorizonte, md \in {<<1, 1>>, <<6, 15>>, <<6, 16>>, <<11, 30>>}}

VidaDe(t) == IF Lower(t) \in DOMAIN VIDA_ECONOMICA THEN VIDA_ECONOMICA[Lower(t)] ELSE 50

MarketBodies ==
    UNION {
      {WithSuelo([BaseBody EXCEPT !.fecha_valoracion = Some(vd), !.fecha_construccion = Some(cd),
                                  !.tipologia = Some(t), !.renta_m2_mes = Some(r2),
                                  !.tasa_actualizacion = Some(ta)], su) :
          cd \in ConstructionDates(vd, VidaDe(t)), r2 \in {25010, -10000},
          ta \in Tasas, su \in Suelos} :
      vd \in {ValDate1, ValDate2}, t \in Tipologias}

\* which rents are there: absent, zero, negative, positive, for both rents, with
\* the fields of both modes there or not
ModeBodies ==
    {[BaseBody EXCEPT !.renta_mensual = rm, !.renta_m2_mes = r2,
                      !.fecha_inicio_contrato = sd, !.vigencia_anios = vg,
                      !.fecha_construccion = cd, !.tipologia = t] :
        rm \in {None, Some(0), Some(-10000), Some(1000000)},
        r2 \in {None, Some(0), Some(-10000), Some(25010)},
        sd \in {None, Some(MkDate(2024, 1, 1))}, vg \in {None, Some(2)},
        cd \in {None, Some(MkDate(1990, 1, 1))}, t \in {None, Some(industrial)}}

\* the rates and the area, in both modes
MoneyBodies ==
    {WithSuelo([b EXCEPT !.superficie_m2 = Some(sp), !.porcentaje_gastos = Some(pg),
                         !.plusvalia_anual = Some(pl), !.tasa_actualizacion = Some(ta),
                         !.ipc_anual = ipc], su) :
        b \in {[BaseBody EXCEPT !.fecha_inicio_contrato = Some(MkDate(2023, 6, 16)),
                                !.vigencia_anios = Some(MaxVigencia),
                                !.renta_mensual = Some(83370)],
               [BaseBody EXCEPT !.fecha_construccion = Some(MkDate(1992, 1, 1)),
                                !.tipologia = Some(industrial),
                                !.renta_m2_mes = Some(25010)]},
        sp \in {10000, 25000}, pg \in {0, 500, 10000}, pl \in {0, 200},
        ta \in Tasas, ipc \in {None, Some(0), Some(200)}, su \in Suelos}

\* the land value given directly, with and without the fields it is derived from
LandBodies ==
    {[b EXCEPT !.land_value = Some(lv), !.valor_mercado_m2 = vm,
               !.coste_construccion_m2 = cc, !.otros_gastos_m2 = cc, !.coef_b = cb] :
        b \in {[BaseBody EXCEPT !.fecha_inicio_contrato = Some(MkDate(2024, 1, 1)),
                                !.vigencia_anios = Some(2),
                                !.renta_mensual = Some(1000000)],
               [BaseBody EXCEPT !.fecha_construccion = Some(MkDate(1992, 1, 1)),
                                !.tipologia = Some(industrial),
                                !.renta_m2_mes = Some(25010)]},
        lv \in {500000, 0}, vm \in {None, Some(1000000)}, cc \in {None, Some(50000)},
        cb \in {None, Some(3000)}}

Bodies == ContractBodies \cup MarketBodies \cup ModeBodies \cup MoneyBodies \cup LandBodies

----------------------------------------------------------------------------
(* The service: a request is posted, then handled; nothing is kept between calls *)

NoOut == [kind |-> "none"]

NoBody == [f \in BodyFields |-> None]

Init ==
    /\ pc = "idle"
    /\ req = NoBody
    /\ out = NoOut
    /\ frame = NoFrame

\* a client posts a body to /capitalizacion_rentas
Post(body) ==
    /\ pc = "idle"
    /\ pc' = "pending"
    /\ req' = body
    /\ UNCHANGED <<out, frame>>

\* the endpoint runs to its return (or to the exception it raises)
Handle ==
    /\ pc = "pending"
    /\ pc' = "done"
    /\ LET r == Endpoint(req)
       IN  out' = r.ret /\ frame' = r.frame
    /\ UNCHANGED req

\* the response is sent; request, result and locals are discarded
Respond ==
    /\ pc = "done"
    /\ pc' = "idle"
    /\ req' = NoBody
    /\ out' = NoOut
    /\ frame' = NoFrame

Next ==
    \/ \E body \in Bodies : Post(body)
    \/ Handle
    \/ Respond

Spec == Init /\ [][Next]_vars

TypeOK ==
    /\ pc \in {"idle", "pending", "done"}
    /\ out.kind \in {"none", "RentOutput", "exception", "rejected"}
    /\ (pc = "done") = (out.kind # "none")

----------------------------------------------------------------------------
(* Vocabulary of the properties *)

Done == pc = "done"

\* the handler returned a result that is not one of the three error results
Valued == Done /\ out.kind = "RentOutput" /\ "error" \notin DOMAIN out.parametros

IsErrorResult(o) ==
    /\ o.kind = "RentOutput"
    /\ "error" \in DOMAIN o.parametros
    /\ o.valor_actual = 0
    /\ o.valor_reversion = 0
    /\ o.flujos_actualizados = << >>
    /\ o.n_periodos = 0

Positive(o) == ~IsNone(o) /\ Val(o) > 0

RECURSIVE SumValues(_)
\* sum(d.values())
SumValues(d) == IF d = << >> THEN 0 ELSE d[1][2] + SumValues(Tail(d))

----------------------------------------------------------------------------
(* Mode selection *)

Data == RentInput(req)

\* C1: contract mode is chosen iff a positive renta_mensual is present; otherwise
\* market mode iff a positive renta_m2_mes is present; otherwise the call returns
\* the MissingIncomeInput error result (modo "error"); zero and negative rents
\* count as not present.
C1_ModeSelection ==
    (Done /\ Accepted(req)) =>
        /\ (frame.modo = Some("contrato")) = Positive(Data.renta_mensual)
        /\ (frame.modo = Some("mercado"))
               = (~Positive(Data.renta_mensual) /\ Positive(Data.renta_m2_mes))
        /\ (out = ErrorOutput(MsgRenta, "error"))
               = (~Positive(Data.renta_mensual) /\ ~Positive(Data.renta_m2_mes))

----------------------------------------------------------------------------
(* Failures are results *)

\* C2: every body the schema accepts gets a RentOutput, never an exception, and
\* an error result is zeroed: valor_actual = 0, valor_reversion = 0, no flows,
\* n_periodos = 0 and an "error" message (for an unknown typology, the prefix
\* followed by the typology as supplied).
C2_FailuresAreResults ==
    (Done /\ Accepted(req)) =>
        /\ out.kind = "RentOutput"
        /\ ("error" \in DOMAIN out.parametros =>
               /\ IsErrorResult(out)
               /\ (out.parametros.error \notin {MsgRenta, MsgHorizonte} =>
                      /\ ~IsNone(Data.tipologia)
                      /\ out.parametros.error = MsgTipologia(Val(Data.tipologia))))

----------------------------------------------------------------------------
(* Horizon *)

\* C3: a non-error result reports n_periodos > 0 (after rounding to 2 decimals);
\* a computed horizon <= 0 yields the NonPositiveHorizon error result, and no
\* flow or reversion is computed for it.
C3_PositiveHorizon ==
    Done =>
        /\ (Valued => out.n_periodos > 0)
        /\ ((~IsNone(frame.n_periodos) /\ Val(frame.n_periodos) <= 0) =>
               /\ out = ErrorOutput(MsgHorizonte, Val(frame.modo))
               /\ IsNone(frame.valor_reversion)
               /\ IsNone(frame.valor_actualizado))

----------------------------------------------------------------------------
(* The total and its parts *)

\* reported valor_actual minus (sum of the reported flows + reported reversion)
SumGap == out.valor_actual - (SumValues(out.flujos_actualizados) + out.valor_reversion)

\* the ranges the data model gives the fields of a valid input: area > 0,
\* expense ratio in [0, 1), rates > -1, and a positive rent for the mode taken
\* (with a positive term in contract mode)
ValidInput ==
    /\ Accepted(req)
    /\ Data.superficie_m2 > 0
    /\ Data.porcentaje_gastos >= 0 /\ Data.porcentaje_gastos < Scale
    /\ Data.tasa_actualizacion > -Scale
    /\ Data.plusvalia_anual > -Scale
    /\ ~IsNone(Data.ipc_anual) /\ Val(Data.ipc_anual) > -Scale
    /\ \/ Positive(Data.renta_mensual) /\ Positive(Data.vigencia_anios)
       \/ IsNone(Data.renta_mensual) /\ Positive(Data.renta_m2_mes)

----------------------------------------------------------------------------
(* Discounting monotonicity *)

\* the result for the same body with another discount rate
WithTasa(ta) == Endpoint([req EXCEPT !.tasa_actualizacion = Some(ta)]).ret

LargerTasas == {ta \in Tasas : ta > Val(req.tasa_actualizacion)}

\* C5 as stated: of two valid inputs that differ only in tasa_actualizacion and
\* both give a non-error result, the one with the larger rate has a strictly
\* smaller valor_actual, also when the land value is zero or negative.
C5_StrictlyDecreasing ==
    (Valued /\ ValidInput) => \A ta \in LargerTasas : WithTasa(ta).valor_actual < out.valor_actual

\* C5 as amended: of two valid inputs that differ only in tasa_actualizacion and
\* both give a non-error result, when the derived land value is not negative the
\* one with the larger rate has a valor_actual that is not larger; it may be
\* equal, the values being rounded to cents.
C5_NonIncreasing ==
    (Valued /\ ValidInput /\ out.parametros.valor_suelo >= 0) =>
        \A ta \in LargerTasas : WithTasa(ta).valor_actual <= out.valor_actual

\* a positive flow and land value, and a larger rate that lowers the value
C5_Witness ==
    /\ Valued
    /\ ValidInput
    /\ out.parametros.valor_suelo > 0
    /\ \E ta \in LargerTasas : WithTasa(ta).valor_actual < out.valor_actual

----------------------------------------------------------------------------
(* Land value *)

DerivedFields == {"valor_mercado_m2", "coste_construccion_m2", "otros_gastos_m2", "coef_b"}

\* the body gives the land value directly and leaves out fields it would be
\* derived from
DirectForm(body) ==
    /\ ~IsNone(body.land_value)
    /\ \E f \in DerivedFields : IsNone(body[f])
    /\ \A f \in RequiredFields \ DerivedFields : ~IsNone(body[f])

DerivedForm(body) == IsNone(body.land_value) /\ Accepted(body)

\* C6: the land value is accepted in either form without the fields of the
\* other: a body in direct form is handled with valor_suelo = land_value, a body
\* in derived form with valor_suelo = vm * sup - coef_b * vm * sup
\* - (cc + og) * sup; the reported valor_suelo is the one the reversion uses.
C6_LandValueForms ==
    Done =>
        /\ (DirectForm(req) =>
               /\ out.kind # "rejected"
               /\ (Valued => out.parametros.valor_suelo = Val(req.land_value)))
        /\ ((DerivedForm(req) /\ Valued) =>
               LET vm_sup == MulFix(Data.valor_mercado_m2, Data.superficie_m2)
               IN  out.parametros.valor_suelo =
                       vm_sup - MulFix(Data.coef_b, vm_sup)
                         - MulFix(Data.coste_construccion_m2 + Data.otros_gastos_m2,
                                  Data.superficie_m2))
        /\ (Valued =>
               frame.valor_reversion =
                   Some(MulFix(out.parametros.valor_suelo,
                               Pow(Scale + Data.plusvalia_anual, Val(frame.n_periodos)))))

----------------------------------------------------------------------------
(* Rates *)

RateFields ==
    {"porcentaje_gastos", "plusvalia_anual", "tasa_actualizacion", "ipc_anual", "coef_b"}

\* the same body with the rate f written as a whole-number percentage
AsPercentage(body, f) == [body EXCEPT ![f] = Some(Val(body[f]) * 100)]

\* C7: every rate is normalized to a fraction before use: a rate given as a
\* whole-number percentage (5) gives the same result as the fraction (0.05).
C7_RatesNormalized ==
    Valued =>
        \A f \in RateFields :
            (~IsNone(req[f]) /\ Abs(Val(req[f])) < Scale) =>
                Endpoint(AsPercentage(req, f)).ret = out

----------------------------------------------------------------------------
(* Market-mode horizon *)

CaseEq(a, b) ==
    \/ a = b
    \/ \E i \in 1..Len(UpperChars) : {a, b} = {UpperChars[i], LowerChars[i]}

\* t is an upper/lower-case variant of the key k
CaseVariant(t, k) == Len(t) = Len(k) /\ \A i \in 1..Len(k) : CaseEq(t[i], k[i])

EconomicLives ==
    {<<vivienda, 100>>, <<oficina, 75>>, <<local_comercial, 50>>, <<industrial, 35>>}

MarketCase ==
    /\ Done /\ Accepted(req)
    /\ ~Truthy(req.renta_mensual) /\ Truthy(req.renta_m2_mes)
    /\ ~IsNone(req.fecha_construccion) /\ ~IsNone(req.tipologia)

\* valuation year - construction year, less one when the (month, day) of the
\* valuation is strictly before that of the construction
Age ==
    LET v == Val(req.fecha_valoracion)
        c == Val(req.fecha_construccion)
    IN  v.year - c.year
          - (IF v.month < c.month \/ (v.month = c.month /\ v.day < c.day) THEN 1 ELSE 0)

\* C8: in market mode the horizon is economic_life - age, the life looked up
\* case-insensitively in the table (100, 75, 50, 35) and the age adjusted by the
\* anniversary; a typology that matches no key gives the UnknownTypology error
\* whatever the age.
C8_MarketHorizon ==
    MarketCase =>
        LET t == Val(req.tipologia)
            matches == {p \in EconomicLives : CaseVariant(t, p[1])}
        IN  IF matches = {}
            THEN out = ErrorOutput(MsgTipologia(t), "mercado")
            ELSE \A p \in matches :
                   LET h == p[2] - Age
                   IN  /\ frame.n_periodos = Some(h * Year)
                       /\ (h <= 0 => out = ErrorOutput(MsgHorizonte, "mercado"))
                       /\ (h > 0 /\ out.kind = "RentOutput" =>
                              /\ Valued
                              /\ out.n_periodos = h * Scale
                              /\ out.modo = "mercado")

\* a valuation of a typology written in another case than its key, before the
\* anniversary of the construction
C8_Witness ==
    /\ MarketCase /\ Valued
    /\ Lower(Val(req.tipologia)) # Val(req.tipologia)
    /\ Age < Val(req.fecha_valoracion).year - Val(req.fecha_construccion).year

----------------------------------------------------------------------------
(* Contract-mode horizon *)

ContractCase ==
    /\ Done /\ Accepted(req)
    /\ Truthy(req.renta_mensual)
    /\ ~IsNone(req.fecha_inicio_contrato) /\ ~IsNone(req.vigencia_anios)

\* C9: for every valuation date, start date and term the contract-mode horizon
\* is the days from the valuation date to the end date (the start date with the
\* term added to its year) over 365.0 and the gross income is renta_mensual * 12;
\* when the valuation date is on or after the end date the result is the
\* NonPositiveHorizon error with modo "contrato".
C9_ContractHorizon ==
    ContractCase =>
        LET ini  == Val(req.fecha_inicio_contrato)
            fin  == MkDate(ini.year + Val(req.vigencia_anios), ini.month, ini.day)
            dias == DaysBetween(fin, Val(req.fecha_valoracion))
        IN  /\ frame.n_periodos = Some((dias * Year) \div 365)
            /\ frame.renta_bruta_anual = Some(Val(req.renta_mensual) * 12)
            /\ (dias <= 0 => out = ErrorOutput(MsgHorizonte, "contrato"))

----------------------------------------------------------------------------
(* The cash-flow series *)

\* C10: for a non-error result of horizon n = k + f, flujos_actualizados has one
\* entry per whole year t = 1..k, keyed str(t), in increasing t, the flow
\* net_base * (1 + ipc)^(t-1) discounted at t - 0.5; then, iff f > 0, one entry
\* keyed n to 2 decimals, the flow net_base * (1 + ipc)^k * f discounted at
\* k + f/2; no key overwrites another, so there are k + (1 if f > 0) entries;
\* the reversion valor_suelo * (1 + plusvalia)^n is discounted at n.  Reported
\* amounts are the amounts rounded to 2 decimals.
C10_FlowSeries ==
    Valued =>
        LET n    == Val(frame.n_periodos)
            k    == n \div Year
            f    == n - k * Year
            base == out.parametros.flujo_neto_base
            ipc  == Scale + Val(Data.ipc_anual)
            tasa == Scale + Data.tasa_actualizacion
            fl   == out.flujos_actualizados
        IN  /\ Len(fl) = k + (IF f > 0 THEN 1 ELSE 0)
            /\ Cardinality(DictKeys(fl)) = Len(fl)
            /\ \A t \in 1..k :
                  /\ fl[t][1] = Str(t)
                  /\ "." \notin {fl[t][1][i] : i \in 1..Len(fl[t][1])}
                  /\ fl[t][2] = Round2(DivFix(MulFix(base, PowInt(ipc, t - 1)),
                                              Pow(tasa, t * Year - Year \div 2)))
            /\ (f > 0 =>
                  /\ fl[k + 1][1] = Format2f(n)
                  /\ fl[k + 1][1][Len(fl[k + 1][1]) - 2] = "."
                  /\ fl[k + 1][2] = Round2(DivFix(MulTime(MulFix(base, PowInt(ipc, k)), f),
                                                  Pow(tasa, k * Year + f \div 2))))
            /\ out.valor_reversion =
                  Round2(DivFix(MulFix(out.parametros.valor_suelo,
                                       Pow(Scale + Data.plusvalia_anual, n)),
                                Pow(tasa, n)))

\* whole years followed by a partial period
C10_Witness ==
    /\ Valued
    /\ Val(frame.n_periodos) > 2 * Year
    /\ Val(frame.n_periodos) % Year > 0
    /\ Len(out.flujos_actualizados) = Val(frame.n_periodos) \div Year + 1

====
